---------------------------- MODULE Spec2Model ----------------------------
(***************************************************************************)
(* FreshReceipt: the household-scoped authorization core.                  *)
(*                                                                         *)
(*   client  contexts/AuthContext.tsx       Session Store                  *)
(*           contexts/HouseholdContext.tsx  Household Selector             *)
(*           src/api/client.ts              request interceptor            *)
(*   server  db/policies/fix_rls.sql        row-level policies             *)
(*           create_household_with_member   Bootstrap RPC                  *)
(*                                                                         *)
(* JavaScript runs each callback to completion: one action is the code     *)
(* between two awaits.  An awaited call's outcome is an input of the       *)
(* action that resumes after it.                                           *)
(***************************************************************************)
EXTENDS Integers, Sequences, FiniteSets

\* ------------------------------------------------------------------ bounds
MaxCalls == 2        \* operations the application starts (sign-in, select, request, ...)
MaxEvents == 2       \* undelivered onAuthStateChange notifications
MaxToken == 2        \* access tokens issued to one session (1 = sign-in, then refreshes)
MaxSelects == 2      \* selectHousehold calls in flight at the same time
MaxHouseholds == 2   \* household ids the database hands out
MaxDbOps == 4        \* statements and RPC calls the database users issue

Users == {"u1", "u2"}
HouseholdIds == {"H1", "H2"}
Tokens == 1..MaxToken
SelectSlots == 1..MaxSelects

NoUser == "NoUser"
NoSession == [user |-> NoUser, token |-> 0]
NoId == "null"
NoAuth == 0
NoRequest == [authorization |-> NoAuth, household |-> NoId, got |-> "none"]

Sessions == [user : Users, token : Tokens]

\* client.ts line 44: the literal the interceptor writes into X-Household-ID
HardcodedHouseholdId == "1d1b7a85-7542-4291-83f7-cc962462f519"

VARIABLES
    \* AuthContext.tsx: AuthProvider
    user, session, loading,
    sbSession,          \* the session the supabase client holds (getSession's answer)
    authEvents,         \* notifications onAuthStateChange has not delivered yet
    initPc,             \* the initial getSession().then(...): pending, done, rejected
    signOutPc, signInPc, signUpPc,
    signInErr, signInUser,    \* signIn's error and argument while it runs
    settled,                  \* the sign-in, sign-up or sign-out promise that settled last
    \* HouseholdContext.tsx: HouseholdProvider
    householdId, hhLoading, secureStore, effectPending,
    loadPc, loadFirst, loadEnd, listRequested,
    selCalls, clearPc, clearResult,
    \* client.ts
    currentHouseholdId, reqPc, lastRequest,
    \* bookkeeping
    lastSelected,       \* id of the latest successful selectHousehold (NoId after a clear)
    reqSelected,        \* lastSelected when lastRequest was built
    calls,
    \* the database: committed tables, the RPC's open transaction, the last statement
    households, members, nextId, tx, rpcStatus, rpcReturn, lastOp, result, dbOps

authVars == <<user, session, loading, sbSession, authEvents, initPc,
              signOutPc, signInPc, signUpPc, signInErr, signInUser, settled>>
hhVars == <<householdId, hhLoading, secureStore, effectPending, loadPc, loadFirst, loadEnd,
            listRequested, selCalls, clearPc, clearResult, currentHouseholdId,
            lastSelected>>
reqVars == <<reqPc, lastRequest, reqSelected>>
clientVars == <<authVars, hhVars, reqVars, calls>>
dbVars == <<households, members, nextId, tx, rpcStatus, rpcReturn, lastOp, result, dbOps>>

\* ------------------------------------------------------- AuthContext.tsx

\* What an awaited supabase call can do: answer, answer with {error}, or throw.
\* "missing": an error whose message includes "Auth session missing";
\* "other": any other message; "nomsg": an error object with no message.
ErrorKinds == {"missing", "other", "nomsg"}
RemoteOutcomes == {[kind |-> "ok", err |-> "none"]}
                      \cup [kind : {"error", "throw"}, err : ErrorKinds]

\* The promise that settled last: whose it is, how it settled, and the answer
\* of the awaited call (at) after which it settled.
NoneSettled == [op |-> "none", result |-> "none", at |-> "none",
                kind |-> "none", err |-> "none"]
Settled(op, how, at, kind, err) ==
    [op |-> op, result |-> how, at |-> at, kind |-> kind, err |-> err]

\* setUser left out of the batch: user keeps its value
SessionUser_Mutant(s) == user

SessionUser(s) == s.user     \* session?.user ?? null

\* lines 24-26 and 33-35: setSession; setUser; setLoading(false), one render batch
ApplySession(s) ==
    /\ session' = s
    /\ user' = SessionUser(s)
    /\ loading' = FALSE

\* The supabase client queues a notification for its subscribers.
Emit(s) == authEvents' = Append(authEvents, s)

\* lines 23-27: the initial getSession resolves ("ok"), resolves with an error
\* and no session ("error"), or rejects: there is no .catch, so nothing runs.
InitGetSession(o) ==
    /\ initPc = "pending"
    /\ IF o = "throw"
       THEN /\ initPc' = "rejected"
            /\ UNCHANGED <<user, session, loading>>
       ELSE /\ initPc' = "done"
            /\ ApplySession(IF o = "ok" THEN sbSession ELSE NoSession)
    /\ UNCHANGED <<sbSession, authEvents, signOutPc, signInPc, signInErr, signInUser,
                   signUpPc, settled>>
    /\ UNCHANGED <<hhVars, reqVars, calls, dbVars>>

\* lines 32-36: the onAuthStateChange callback
AuthStateChange ==
    /\ authEvents # <<>>
    /\ ApplySession(Head(authEvents))
    /\ authEvents' = Tail(authEvents)
    /\ UNCHANGED <<sbSession, initPc, signOutPc, signInPc, signInErr, signInUser,
                   signUpPc, settled>>
    /\ UNCHANGED <<hhVars, reqVars, calls, dbVars>>

\* supabase.ts line 47 (autoRefreshToken): the client replaces the access token
TokenRefreshed ==
    /\ sbSession # NoSession
    /\ sbSession.token < MaxToken
    /\ Len(authEvents) < MaxEvents
    /\ sbSession' = [sbSession EXCEPT !.token = @ + 1]
    /\ Emit(sbSession')
    /\ UNCHANGED <<user, session, loading, initPc, signOutPc, signInPc, signInErr,
                   signInUser, signUpPc, settled>>
    /\ UNCHANGED <<hhVars, reqVars, calls, dbVars>>

\* lines 41-42: signUp starts supabase.auth.signUp
SignUpCall ==
    /\ signUpPc = "idle"
    /\ calls < MaxCalls
    /\ calls' = calls + 1
    /\ signUpPc' = "signUp"
    /\ UNCHANGED <<user, session, loading, sbSession, authEvents, initPc,
                   signOutPc, signInPc, signInErr, signInUser, settled>>
    /\ UNCHANGED <<hhVars, reqVars, dbVars>>

\* lines 42-44: if (error) throw error
SignUpDone(o) ==
    /\ signUpPc = "signUp"
    /\ signUpPc' = "idle"
    /\ settled' = Settled("signUp", IF o = "ok" THEN "resolved" ELSE "rejected",
                          "signUp", o, "none")
    /\ UNCHANGED <<user, session, loading, sbSession, authEvents, initPc,
                   signOutPc, signInPc, signInErr, signInUser>>
    /\ UNCHANGED <<hhVars, reqVars, calls, dbVars>>

\* lines 46-50: signIn starts signInWithPassword
SignInCall(u) ==
    /\ signInPc = "idle"
    /\ calls < MaxCalls
    /\ calls' = calls + 1
    /\ signInPc' = "password"
    /\ signInUser' = u
    /\ signInErr' = FALSE
    /\ UNCHANGED <<user, session, loading, sbSession, authEvents, initPc,
                   signOutPc, signUpPc, settled>>
    /\ UNCHANGED <<hhVars, reqVars, dbVars>>

\* lines 47-53: signInWithPassword answered; getSession is awaited next
SignInPassword(o) ==
    /\ signInPc = "password"
    /\ IF o = "throw"
       THEN /\ signInPc' = "idle"
            /\ settled' = Settled("signIn", "rejected", "password", o, "none")
            /\ signInUser' = NoUser
            /\ UNCHANGED <<sbSession, authEvents, signInErr>>
       ELSE /\ signInPc' = "getSession"
            /\ signInErr' = (o = "error")
            /\ UNCHANGED <<settled, signInUser>>
            /\ IF o = "ok"
               THEN /\ Len(authEvents) < MaxEvents
                    /\ sbSession' = [user |-> signInUser, token |-> 1]
                    /\ Emit(sbSession')
               ELSE UNCHANGED <<sbSession, authEvents>>
    /\ UNCHANGED <<user, session, loading, initPc, signOutPc, signUpPc>>
    /\ UNCHANGED <<hhVars, reqVars, calls, dbVars>>

\* lines 51-56: getSession answered; if (error) throw error
SignInGetSession(o) ==
    /\ signInPc = "getSession"
    /\ signInPc' = "idle"
    /\ settled' = Settled("signIn",
                          IF o = "throw" \/ signInErr THEN "rejected" ELSE "resolved",
                          "getSession", o, "none")
    /\ signInErr' = FALSE
    /\ signInUser' = NoUser
    /\ UNCHANGED <<user, session, loading, sbSession, authEvents, initPc,
                   signOutPc, signUpPc>>
    /\ UNCHANGED <<hhVars, reqVars, calls, dbVars>>

\* lines 66-75: what the try block throws for the answer of supabase.auth.signOut.
\* A returned error with no message makes error.message.includes throw a
\* TypeError, whose own message is some other text.
SignOutTryThrows(o) ==
    IF o.kind = "ok" THEN "none"
    ELSE IF o.kind = "throw" THEN o.err
    ELSE IF o.err = "missing" THEN "none"
    ELSE "other"

\* a catch block that passes on every error but the missing-session one
SignOutCatchRethrows_Mutant(e) ==
    e # "none" /\ e # "missing"

\* lines 79-84: the catch block logs; both arms of its if complete normally
SignOutCatchRethrows(e) ==
    IF e = "missing" THEN FALSE ELSE FALSE

\* the state cleared at the end of the try block instead of in a finally
SignOutSettle_Mutant(at, kind, err, e) ==
    /\ signOutPc' = "idle"
    /\ settled' = Settled("signOut",
                          IF e # "none" /\ SignOutCatchRethrows(e)
                          THEN "rejected" ELSE "resolved",
                          at, kind, err)
    /\ IF e = "none"
       THEN session' = NoSession /\ user' = NoUser
       ELSE UNCHANGED <<session, user>>

\* lines 79-90: catch, then finally { setSession(null); setUser(null) }, then
\* the promise settles; e is what the try block threw ("none": nothing), after
\* the awaited call at answered (kind, err)
SignOutSettle(at, kind, err, e) ==
    /\ signOutPc' = "idle"
    /\ settled' = Settled("signOut",
                          IF e # "none" /\ SignOutCatchRethrows(e)
                          THEN "rejected" ELSE "resolved",
                          at, kind, err)
    /\ session' = NoSession
    /\ user' = NoUser

\* lines 59-63: signOut starts getSession
SignOutCall ==
    /\ signOutPc = "idle"
    /\ calls < MaxCalls
    /\ calls' = calls + 1
    /\ signOutPc' = "getSession"
    /\ UNCHANGED <<user, session, loading, sbSession, authEvents, initPc,
                   signInPc, signInErr, signInUser, signUpPc, settled>>
    /\ UNCHANGED <<hhVars, reqVars, dbVars>>

\* lines 61-78: getSession answered (o = "ok") or threw an error of kind o
SignOutGetSession(o) ==
    /\ signOutPc = "getSession"
    /\ IF o = "ok" /\ sbSession # NoSession
       THEN /\ signOutPc' = "remote"
            /\ UNCHANGED <<settled, session, user>>
       ELSE IF o = "ok"
       THEN SignOutSettle("getSession", "ok", "none", "none")
       ELSE SignOutSettle("getSession", "throw", o, o)
    /\ UNCHANGED <<loading, sbSession, authEvents, initPc,
                   signInPc, signInErr, signInUser, signUpPc>>
    /\ UNCHANGED <<hhVars, reqVars, calls, dbVars>>

\* lines 66-90: supabase.auth.signOut answered.  The client drops its session
\* and notifies when the revocation succeeded; after a returned error it may
\* or may not have dropped it (cleared).
SignOutRemote(o, cleared) ==
    /\ signOutPc = "remote"
    /\ IF o.kind = "ok" \/ (o.kind = "error" /\ cleared)
       THEN /\ Len(authEvents) < MaxEvents
            /\ sbSession' = NoSession
            /\ Emit(NoSession)
       ELSE UNCHANGED <<sbSession, authEvents>>
    /\ SignOutSettle("remote", o.kind, o.err, SignOutTryThrows(o))
    /\ UNCHANGED <<loading, initPc, signInPc, signInErr, signInUser, signUpPc>>
    /\ UNCHANGED <<hhVars, reqVars, calls, dbVars>>

\* ---------------------------------------------------------------- client.ts

\* lines 20-22
setClientHouseholdId(id) == currentHouseholdId' = id

\* line 41, commented out in the source: the header would carry currentHouseholdId
HouseholdHeader_Mutant == currentHouseholdId

\* line 44: config.headers["X-Household-ID"] = "1d1b7a85-..."
HouseholdHeader == HardcodedHouseholdId

\* lines 26-30: what the awaited getSession gave the interceptor
SessionRetrieved(o) ==
    IF o # "ok" THEN "threw"
    ELSE IF sbSession # NoSession THEN "session" ELSE "none"

\* the header taken from the client's session without regard to a throw
AuthorizationHeader_Mutant(o) ==
    IF sbSession # NoSession THEN sbSession.token ELSE NoAuth

\* lines 32-34 with the catch of 35-37: the header is set only when getSession
\* answered with a session that has an access token
AuthorizationHeader(o) ==
    IF o = "ok" /\ sbSession # NoSession THEN sbSession.token ELSE NoAuth

\* lines 24-46: the config the interceptor returns; o is getSession's outcome.
\* got is bookkeeping, not a header: what getSession gave.
Interceptor(o) ==
    [authorization |-> AuthorizationHeader(o), household |-> HouseholdHeader,
     got |-> SessionRetrieved(o)]

\* The interceptor resumes after its awaited getSession and returns the config.
BuildRequest(o) ==
    /\ lastRequest' = Interceptor(o)
    /\ reqSelected' = lastSelected

\* services/foodItems.ts lines 4-10: apiClient.get starts the interceptor
RequestCall ==
    /\ reqPc = "idle"
    /\ calls < MaxCalls
    /\ calls' = calls + 1
    /\ reqPc' = "getSession"
    /\ UNCHANGED <<lastRequest, reqSelected>>
    /\ UNCHANGED <<authVars, hhVars, dbVars>>

RequestBuilt(o) ==
    /\ reqPc = "getSession"
    /\ reqPc' = "idle"
    /\ BuildRequest(o)
    /\ UNCHANGED <<authVars, hhVars, calls, dbVars>>

\* -------------------------------------------------- HouseholdContext.tsx

\* setHouseholdId(id): a changed value re-renders and re-runs the effect of
\* lines 24-26
setHouseholdId(id) ==
    /\ householdId' = id
    /\ effectPending' = (effectPending \/ householdId # id)

\* lines 24-26: useEffect(() => setClientHouseholdId(householdId), [householdId])
SyncEffect ==
    /\ effectPending
    /\ effectPending' = FALSE
    /\ setClientHouseholdId(householdId)
    /\ UNCHANGED <<householdId, hhLoading, secureStore, loadPc, loadFirst, loadEnd, listRequested,
                   selCalls, clearPc, clearResult, lastSelected>>
    /\ UNCHANGED <<authVars, reqVars, calls, dbVars>>

\* selectHousehold with the in-memory state set before the write is awaited
SelectHouseholdBody_Mutant(id, ok) ==
    /\ setHouseholdId(id)
    /\ setClientHouseholdId(id)
    /\ IF ok
       THEN /\ secureStore' = id
            /\ lastSelected' = id
       ELSE UNCHANGED <<secureStore, lastSelected>>

\* lines 59-68: selectHousehold resumes after SecureStore.setItemAsync, which
\* wrote the key (ok) or threw
SelectHouseholdBody(id, ok) ==
    IF ok
    THEN /\ secureStore' = id
         /\ setHouseholdId(id)
         /\ setClientHouseholdId(id)
         /\ lastSelected' = id
    ELSE UNCHANGED <<secureStore, householdId, effectPending, currentHouseholdId,
                     lastSelected>>

\* line 66: throw error
SelectHouseholdResult(ok) == IF ok THEN "resolved" ELSE "rejected"

IdleCall == [pc |-> "idle", id |-> NoId, write |-> "none", result |-> "none"]

\* line 59-61: a caller starts selectHousehold(id)
SelectHouseholdCall(c, id) ==
    /\ selCalls[c].pc = "idle"
    /\ calls < MaxCalls
    /\ calls' = calls + 1
    /\ selCalls' = [selCalls EXCEPT ![c] =
                       [pc |-> "writing", id |-> id, write |-> "none", result |-> "none"]]
    /\ UNCHANGED <<householdId, hhLoading, secureStore, effectPending, loadPc, loadFirst, loadEnd,
                   listRequested, clearPc, clearResult, currentHouseholdId, lastSelected>>
    /\ UNCHANGED <<authVars, reqVars, dbVars>>

\* selectHousehold keeping the in-memory selection of the call that completed
\* first: later calls only write the key
SelectHouseholdWrite_Mutant(c, ok) ==
    /\ selCalls[c].pc = "writing"
    /\ IF ok
       THEN /\ secureStore' = selCalls[c].id
            /\ lastSelected' = selCalls[c].id
            /\ IF householdId = NoId
               THEN /\ setHouseholdId(selCalls[c].id)
                    /\ setClientHouseholdId(selCalls[c].id)
               ELSE UNCHANGED <<householdId, effectPending, currentHouseholdId>>
       ELSE UNCHANGED <<secureStore, householdId, effectPending, currentHouseholdId,
                        lastSelected>>
    /\ selCalls' = [selCalls EXCEPT ![c] =
                       [pc |-> "idle", id |-> @.id,
                        write |-> IF ok THEN "written" ELSE "failed",
                        result |-> SelectHouseholdResult(ok)]]
    /\ UNCHANGED <<hhLoading, loadPc, loadFirst, loadEnd, listRequested, clearPc, clearResult>>
    /\ UNCHANGED <<authVars, reqVars, calls, dbVars>>

\* lines 59-68: a selectHousehold call resumes after its setItemAsync
SelectHouseholdWrite(c, ok) ==
    /\ selCalls[c].pc = "writing"
    /\ SelectHouseholdBody(selCalls[c].id, ok)
    /\ selCalls' = [selCalls EXCEPT ![c] =
                       [pc |-> "idle", id |-> @.id,
                        write |-> IF ok THEN "written" ELSE "failed",
                        result |-> SelectHouseholdResult(ok)]]
    /\ UNCHANGED <<hhLoading, loadPc, loadFirst, loadEnd, listRequested, clearPc, clearResult>>
    /\ UNCHANGED <<authVars, reqVars, calls, dbVars>>

\* lines 70-79: clearHousehold
ClearHouseholdCall ==
    /\ clearPc = "idle"
    /\ calls < MaxCalls
    /\ calls' = calls + 1
    /\ clearPc' = "deleting"
    /\ clearResult' = "none"
    /\ UNCHANGED <<householdId, hhLoading, secureStore, effectPending, loadPc, loadFirst, loadEnd,
                   listRequested, selCalls, currentHouseholdId, lastSelected>>
    /\ UNCHANGED <<authVars, reqVars, dbVars>>

ClearHouseholdDelete(ok) ==
    /\ clearPc = "deleting"
    /\ clearPc' = "idle"
    /\ clearResult' = IF ok THEN "resolved" ELSE "rejected"
    /\ IF ok
       THEN /\ secureStore' = NoId
            /\ setHouseholdId(NoId)
            /\ setClientHouseholdId(NoId)
            /\ lastSelected' = NoId
       ELSE UNCHANGED <<secureStore, householdId, effectPending, currentHouseholdId,
                        lastSelected>>
    /\ UNCHANGED <<hhLoading, loadPc, loadFirst, loadEnd, listRequested, selCalls>>
    /\ UNCHANGED <<authVars, reqVars, calls, dbVars>>

\* loadHouseholdId with the stored id ignored: the list is always asked for
LoadGetItem_Mutant(ok) ==
    /\ loadPc = "getItem"
    /\ IF ok
       THEN /\ loadPc' = "intercept"
            /\ UNCHANGED <<householdId, effectPending, hhLoading, loadEnd>>
       ELSE /\ hhLoading' = FALSE
            /\ loadPc' = "done"
            /\ loadEnd' = "readThrew"
            /\ UNCHANGED <<householdId, effectPending>>
    /\ UNCHANGED <<secureStore, loadFirst, listRequested, selCalls, clearPc, clearResult,
                   currentHouseholdId, lastSelected>>
    /\ UNCHANGED <<authVars, reqVars, calls, dbVars>>

\* lines 32-37, 52-56: loadHouseholdId resumes after SecureStore.getItemAsync.
\* loadEnd is bookkeeping: the path on which loadHouseholdId returned.
LoadGetItem(ok) ==
    /\ loadPc = "getItem"
    /\ IF ok /\ secureStore # NoId
       THEN /\ setHouseholdId(secureStore)
            /\ hhLoading' = FALSE
            /\ loadPc' = "done"
            /\ loadEnd' = "stored"
       ELSE IF ok
       THEN \* line 40: getHouseholds() enters the interceptor
            /\ loadPc' = "intercept"
            /\ UNCHANGED <<householdId, effectPending, hhLoading, loadEnd>>
       ELSE \* lines 52-56
            /\ hhLoading' = FALSE
            /\ loadPc' = "done"
            /\ loadEnd' = "readThrew"
            /\ UNCHANGED <<householdId, effectPending>>
    /\ UNCHANGED <<secureStore, loadFirst, listRequested, selCalls, clearPc, clearResult,
                   currentHouseholdId, lastSelected>>
    /\ UNCHANGED <<authVars, reqVars, calls, dbVars>>

\* types.ts lines 19-22 through client.ts lines 24-46: the list request is built
LoadIntercept(o) ==
    /\ loadPc = "intercept"
    /\ loadPc' = "getHouseholds"
    /\ listRequested' = TRUE
    /\ BuildRequest(o)
    /\ UNCHANGED reqPc
    /\ UNCHANGED <<householdId, hhLoading, secureStore, effectPending, loadFirst, loadEnd,
                   selCalls, clearPc, clearResult, currentHouseholdId, lastSelected>>
    /\ UNCHANGED <<authVars, calls, dbVars>>

\* loadHouseholdId without its finally block on the failure of the list request
LoadGetHouseholds_Mutant(ok, first) ==
    /\ loadPc = "getHouseholds"
    /\ IF ok /\ first # NoId
       THEN /\ loadPc' = "select"
            /\ loadFirst' = first
            /\ UNCHANGED <<hhLoading, loadEnd>>
       ELSE /\ loadPc' = "done"
            /\ hhLoading' = (IF ok THEN FALSE ELSE hhLoading)
            /\ loadEnd' = (IF ok THEN "listEmpty" ELSE "listFailed")
            /\ UNCHANGED loadFirst
    /\ UNCHANGED <<householdId, secureStore, effectPending, listRequested,
                   selCalls, clearPc, clearResult, currentHouseholdId, lastSelected>>
    /\ UNCHANGED <<authVars, reqVars, calls, dbVars>>

\* lines 40-50, 54-56: getHouseholds answered with a list whose first id is
\* first (NoId: the empty list), or failed
LoadGetHouseholds(ok, first) ==
    /\ loadPc = "getHouseholds"
    /\ IF ok /\ first # NoId
       THEN /\ loadPc' = "select"
            /\ loadFirst' = first
            /\ UNCHANGED <<hhLoading, loadEnd>>
       ELSE /\ loadPc' = "done"
            /\ hhLoading' = FALSE
            /\ loadEnd' = (IF ok THEN "listEmpty" ELSE "listFailed")
            /\ UNCHANGED loadFirst
    /\ UNCHANGED <<householdId, secureStore, effectPending, listRequested,
                   selCalls, clearPc, clearResult, currentHouseholdId, lastSelected>>
    /\ UNCHANGED <<authVars, reqVars, calls, dbVars>>

\* lines 43-50, 54-56: the nested selectHousehold resumes; its rejection is
\* caught at line 45
LoadSelectWrite(ok) ==
    /\ loadPc = "select"
    /\ SelectHouseholdBody(loadFirst, ok)
    /\ loadPc' = "done"
    /\ hhLoading' = FALSE
    /\ loadEnd' = (IF ok THEN "selected" ELSE "selectFailed")
    /\ UNCHANGED <<loadFirst, listRequested, selCalls, clearPc, clearResult>>
    /\ UNCHANGED <<authVars, reqVars, calls, dbVars>>

\* ---------------------------------------------------------- the database

Roles == {"owner", "member"}
Hids == 1..MaxHouseholds

\* A households row.  creator is bookkeeping, not a column: auth.uid() of the
\* session whose statement or RPC call made the row.
HouseholdRows == [id : Hids, created_by : Users, creator : Users]
MemberRows == [household_id : Hids, user_id : Users, role : Roles]

NoRow == [id |-> 0, created_by |-> NoUser, creator |-> NoUser]
NoTx == [pc |-> "idle", caller |-> NoUser, uid |-> NoUser, h_row |-> NoRow]
NoOp == [kind |-> "none", actor |-> NoUser, hid |-> 0, status |-> "none"]

\* fix_rls.sql lines 12-22: SECURITY DEFINER, so the query reads the whole table
is_household_member_Mutant(hid, uid) ==
    \E m \in members : m.household_id = hid

is_household_member(hid, uid) ==
    \E m \in members : m.household_id = hid /\ m.user_id = uid

\* lines 37-40
household_members_select(row, uid) == row.user_id = uid

\* lines 42-45
household_members_insert(row, uid) == row.user_id = uid

\* lines 47-51: the USING clause, then the WITH CHECK without its test
household_members_update_using(row, uid) == row.user_id = uid

household_members_update_check_Mutant(row, uid) == TRUE

household_members_update_check(row, uid) == row.user_id = uid

\* lines 53-56
household_members_delete(row, uid) == row.user_id = uid

\* lines 63-66
households_select_if_member(row, uid) == is_household_member(row.id, uid)

\* lines 72-75
households_insert(row, uid) == row.created_by = uid

\* lines 58-75: the file gives households a FOR SELECT and a FOR INSERT policy
\* and none FOR UPDATE; with row-level security on, no policy admits no row
households_update(row, uid) == FALSE

\* The table's constraints: (household_id, user_id) is unique, and a
\* membership row references an existing household.
MemberKeyFree(rows, row) ==
    ~ \E m \in rows : m.household_id = row.household_id /\ m.user_id = row.user_id

HouseholdExists(hid) == \E h \in households : h.id = hid

Statement(kind, uid, hid, status) ==
    /\ dbOps < MaxDbOps
    /\ dbOps' = dbOps + 1
    /\ lastOp' = [kind |-> kind, actor |-> uid, hid |-> hid, status |-> status]
    /\ UNCHANGED <<tx, rpcStatus, rpcReturn>>
    /\ UNCHANGED clientVars

\* INSERT INTO households (created_by) by the session of user uid
HouseholdInsert(uid, created_by) ==
    LET row == [id |-> nextId, created_by |-> created_by, creator |-> uid] IN
    /\ nextId <= MaxHouseholds
    /\ IF households_insert(row, uid)
       THEN /\ households' = households \cup {row}
            /\ nextId' = nextId + 1
            /\ Statement("h_insert", uid, nextId, "ok")
       ELSE /\ UNCHANGED <<households, nextId>>
            /\ Statement("h_insert", uid, nextId, "denied")
    /\ result' = {}
    /\ UNCHANGED members

\* SELECT * FROM households WHERE id = hid
HouseholdSelect(uid, hid) ==
    /\ result' = {h \in households : h.id = hid /\ households_select_if_member(h, uid)}
    /\ Statement("h_select", uid, hid, "ok")
    /\ UNCHANGED <<households, members, nextId>>

\* UPDATE households SET created_by = new WHERE id = hid.  A row no policy
\* admits is not found: no row is updated and there is no error.
HouseholdUpdate(uid, hid, new) ==
    LET rows == {h \in households : h.id = hid /\ households_update(h, uid)} IN
    /\ households' = (households \ rows)
                        \cup {[h EXCEPT !.created_by = new] : h \in rows}
    /\ Statement("h_update", uid, hid, IF rows = {} THEN "norow" ELSE "ok")
    /\ result' = {}
    /\ UNCHANGED <<members, nextId>>

\* SELECT * FROM household_members
MemberSelect(uid) ==
    /\ result' = {m \in members : household_members_select(m, uid)}
    /\ Statement("m_select", uid, 0, "ok")
    /\ UNCHANGED <<households, members, nextId>>

\* INSERT INTO household_members VALUES (row)
MemberInsert(uid, row) ==
    /\ IF ~ household_members_insert(row, uid)
       THEN /\ Statement("m_insert", uid, 0, "denied")
            /\ UNCHANGED members
       ELSE IF ~ (HouseholdExists(row.household_id) /\ MemberKeyFree(members, row))
       THEN /\ Statement("m_insert", uid, 0, "constraint")
            /\ UNCHANGED members
       ELSE /\ Statement("m_insert", uid, 0, "ok")
            /\ members' = members \cup {row}
    /\ result' = {}
    /\ UNCHANGED <<households, nextId>>

\* UPDATE household_members SET (...) = new WHERE the row is old.  A row the
\* USING clause hides is not found: no row is updated and there is no error.
MemberUpdate(uid, old, new) ==
    /\ old \in members
    /\ IF ~ household_members_update_using(old, uid)
       THEN /\ Statement("m_update", uid, 0, "norow")
            /\ UNCHANGED members
       ELSE IF ~ household_members_update_check(new, uid)
       THEN /\ Statement("m_update", uid, 0, "denied")
            /\ UNCHANGED members
       ELSE IF ~ (HouseholdExists(new.household_id)
                  /\ MemberKeyFree(members \ {old}, new))
       THEN /\ Statement("m_update", uid, 0, "constraint")
            /\ UNCHANGED members
       ELSE /\ Statement("m_update", uid, 0, "ok")
            /\ members' = (members \ {old}) \cup {new}
    /\ result' = {}
    /\ UNCHANGED <<households, nextId>>

\* DELETE FROM household_members WHERE the row is old
MemberDelete(uid, old) ==
    /\ old \in members
    /\ IF household_members_delete(old, uid)
       THEN /\ Statement("m_delete", uid, 0, "ok")
            /\ members' = members \ {old}
       ELSE /\ Statement("m_delete", uid, 0, "norow")
            /\ UNCHANGED members
    /\ result' = {}
    /\ UNCHANGED <<households, nextId>>

\* --------------------------------- create_household_with_member (part_004)

\* lines 17-21: the session of user caller calls the RPC with payload.user_id
\* = uid; the function body runs in one transaction
RpcCall(caller, uid) ==
    /\ tx.pc = "idle"
    /\ dbOps < MaxDbOps
    /\ nextId <= MaxHouseholds
    /\ dbOps' = dbOps + 1
    /\ tx' = [pc |-> "insertHousehold", caller |-> caller, uid |-> uid, h_row |-> NoRow]
    /\ rpcStatus' = "running"
    /\ rpcReturn' = NoRow
    /\ UNCHANGED <<households, members, nextId, lastOp, result>>
    /\ UNCHANGED clientVars

\* An error in the function body: the transaction's writes are discarded.
RpcRollback ==
    /\ tx' = NoTx
    /\ rpcStatus' = "failed"
    /\ UNCHANGED <<rpcReturn, lastOp, result>>

\* the first INSERT made visible to other sessions at once
RpcInsertHousehold_Mutant(ok) ==
    /\ tx.pc = "insertHousehold"
    /\ IF ok
       THEN /\ tx' = [tx EXCEPT !.pc = "insertMember",
                                !.h_row = [id |-> nextId, created_by |-> tx.uid,
                                           creator |-> tx.caller]]
            /\ households' = households \cup {tx'.h_row}
            /\ nextId' = nextId + 1
            /\ lastOp' = NoOp
            /\ UNCHANGED <<rpcStatus, rpcReturn, result>>
       ELSE /\ RpcRollback
            /\ UNCHANGED <<households, nextId>>
    /\ UNCHANGED <<members, dbOps>>
    /\ UNCHANGED clientVars

\* lines 24-26: INSERT INTO households ... RETURNING * INTO h_row.  No policy
\* applies (SECURITY DEFINER); the statement succeeds or violates a constraint.
RpcInsertHousehold(ok) ==
    /\ tx.pc = "insertHousehold"
    /\ IF ok
       THEN /\ tx' = [tx EXCEPT !.pc = "insertMember",
                                !.h_row = [id |-> nextId, created_by |-> tx.uid,
                                           creator |-> tx.caller]]
            /\ nextId' = nextId + 1
            /\ UNCHANGED <<rpcStatus, rpcReturn, lastOp, result>>
       ELSE /\ RpcRollback
            /\ UNCHANGED nextId
    /\ UNCHANGED <<households, members, dbOps>>
    /\ UNCHANGED clientVars

\* lines 29-30: INSERT INTO household_members (h_row.id, uid, 'owner')
RpcInsertMember(ok) ==
    /\ tx.pc = "insertMember"
    /\ IF ok
       THEN /\ tx' = [tx EXCEPT !.pc = "return"]
            /\ UNCHANGED <<rpcStatus, rpcReturn, lastOp, result>>
       ELSE RpcRollback
    /\ UNCHANGED <<households, members, nextId, dbOps>>
    /\ UNCHANGED clientVars

\* lines 33-34: RETURN row_to_json(h_row); the transaction commits both rows
RpcReturn ==
    /\ tx.pc = "return"
    /\ households' = households \cup {tx.h_row}
    /\ members' = members \cup {[household_id |-> tx.h_row.id, user_id |-> tx.uid,
                                 role |-> "owner"]}
    /\ rpcStatus' = "returned"
    /\ rpcReturn' = tx.h_row
    /\ tx' = NoTx
    /\ lastOp' = NoOp
    /\ result' = {}
    /\ UNCHANGED <<nextId, dbOps>>
    /\ UNCHANGED clientVars

InitDb ==
    /\ households = {} /\ members = {} /\ nextId = 1
    /\ tx = NoTx /\ rpcStatus = "none" /\ rpcReturn = NoRow
    /\ lastOp = NoOp /\ result = {} /\ dbOps = 0

NextDb ==
    \/ \E u \in Users, c \in Users : HouseholdInsert(u, c)
    \/ \E u \in Users, h \in Hids : HouseholdSelect(u, h)
    \/ \E u \in Users, h \in Hids, c \in Users : HouseholdUpdate(u, h, c)
    \/ \E u \in Users : MemberSelect(u)
    \/ \E u \in Users, r \in MemberRows : MemberInsert(u, r)
    \/ \E u \in Users, old \in members, new \in MemberRows : MemberUpdate(u, old, new)
    \/ \E u \in Users, old \in members : MemberDelete(u, old)
    \/ \E u \in Users, p \in Users : RpcCall(u, p)
    \/ \E ok \in BOOLEAN : RpcInsertHousehold(ok)
    \/ \E ok \in BOOLEAN : RpcInsertMember(ok)
    \/ RpcReturn

\* ------------------------------------------------------------ the client

\* After the providers mounted: both stores empty and loading, the initial
\* getSession and loadHouseholdId started.  Secure storage holds what an
\* earlier run left: a session or none, a household id or none.
InitClient ==
    /\ user = NoUser /\ session = NoSession /\ loading = TRUE
    /\ sbSession \in {NoSession, [user |-> "u1", token |-> 1]}
    /\ authEvents = <<>>
    /\ initPc = "pending"
    /\ signOutPc = "idle" /\ signInPc = "idle" /\ signUpPc = "idle"
    /\ signInErr = FALSE /\ signInUser = NoUser
    /\ settled = NoneSettled
    /\ householdId = NoId /\ hhLoading = TRUE
    /\ secureStore \in {NoId} \cup HouseholdIds
    /\ effectPending = FALSE
    /\ loadPc = "getItem" /\ loadFirst = NoId /\ loadEnd = "none"
    /\ listRequested = FALSE
    /\ selCalls = [c \in SelectSlots |-> IdleCall]
    /\ clearPc = "idle" /\ clearResult = "none"
    /\ currentHouseholdId = NoId
    /\ reqPc = "idle" /\ lastRequest = NoRequest /\ reqSelected = NoId
    /\ lastSelected = NoId
    /\ calls = 0

\* The Session Store and the requests it signs; the selector does not move.
NextAuth ==
    \/ \E o \in {"ok", "error", "throw"} : InitGetSession(o)
    \/ AuthStateChange
    \/ TokenRefreshed
    \/ SignUpCall
    \/ \E o \in {"ok", "error", "throw"} : SignUpDone(o)
    \/ \E u \in Users : SignInCall(u)
    \/ \E o \in {"ok", "error", "throw"} : SignInPassword(o)
    \/ \E o \in {"ok", "throw"} : SignInGetSession(o)
    \/ SignOutCall
    \/ \E o \in {"ok"} \cup ErrorKinds : SignOutGetSession(o)
    \/ \E o \in RemoteOutcomes, cleared \in BOOLEAN : SignOutRemote(o, cleared)
    \/ RequestCall
    \/ \E o \in {"ok", "throw"} : RequestBuilt(o)

\* The Household Selector and the requests it scopes; the session does not move.
NextHousehold ==
    \/ RequestCall
    \/ \E o \in {"ok", "throw"} : RequestBuilt(o)
    \/ SyncEffect
    \/ \E c \in SelectSlots, id \in HouseholdIds : SelectHouseholdCall(c, id)
    \/ \E c \in SelectSlots, ok \in BOOLEAN : SelectHouseholdWrite(c, ok)
    \/ ClearHouseholdCall
    \/ \E ok \in BOOLEAN : ClearHouseholdDelete(ok)
    \/ \E ok \in BOOLEAN : LoadGetItem(ok)
    \/ \E o \in {"ok", "throw"} : LoadIntercept(o)
    \/ \E ok \in BOOLEAN, first \in {NoId} \cup HouseholdIds : LoadGetHouseholds(ok, first)
    \/ \E ok \in BOOLEAN : LoadSelectWrite(ok)

vars == <<clientVars, dbVars>>

Init == InitClient /\ InitDb

AuthSpec == Init /\ [][NextAuth]_vars

HouseholdSpec == Init /\ [][NextHousehold]_vars

\* The database under the sessions of its users, before any client state matters.
DbInit == Init /\ sbSession = NoSession /\ secureStore = NoId

DbSpec == DbInit /\ [][NextDb]_vars


\* The promise callbacks and event deliveries the JavaScript runtime runs once
\* they are due; starting an operation and refreshing a token are left to the
\* user and the server.
AuthResume ==
    \/ \E o \in {"ok", "error", "throw"} : InitGetSession(o)
    \/ AuthStateChange
    \/ \E o \in {"ok", "error", "throw"} : SignUpDone(o)
    \/ \E o \in {"ok", "error", "throw"} : SignInPassword(o)
    \/ \E o \in {"ok", "throw"} : SignInGetSession(o)
    \/ \E o \in {"ok"} \cup ErrorKinds : SignOutGetSession(o)
    \/ \E o \in RemoteOutcomes, cleared \in BOOLEAN : SignOutRemote(o, cleared)
    \/ \E o \in {"ok", "throw"} : RequestBuilt(o)

FairAuthSpec == Init /\ [][NextAuth]_vars /\ WF_vars(AuthResume)

\* Signing out while the Household Selector is in use: the two providers are
\* mounted together (RootLayout), each with its own state.
NextSignOut ==
    \/ \E o \in {"ok", "error", "throw"} : InitGetSession(o)
    \/ AuthStateChange
    \/ SignOutCall
    \/ \E o \in {"ok"} \cup ErrorKinds : SignOutGetSession(o)
    \/ \E o \in RemoteOutcomes, cleared \in BOOLEAN : SignOutRemote(o, cleared)
    \/ SyncEffect
    \/ \E c \in SelectSlots, id \in HouseholdIds : SelectHouseholdCall(c, id)
    \/ \E c \in SelectSlots, ok \in BOOLEAN : SelectHouseholdWrite(c, ok)
    \/ ClearHouseholdCall
    \/ \E ok \in BOOLEAN : ClearHouseholdDelete(ok)
    \/ \E ok \in BOOLEAN : LoadGetItem(ok)
    \/ \E o \in {"ok", "throw"} : LoadIntercept(o)
    \/ \E ok \in BOOLEAN, first \in {NoId} \cup HouseholdIds : LoadGetHouseholds(ok, first)
    \/ \E ok \in BOOLEAN : LoadSelectWrite(ok)

SignOutSpec == Init /\ [][NextSignOut]_vars

\* ------------------------------------------------------------------ claims

\* C1: every request the interceptor builds after a successful
\* selectHousehold(id), and before the next successful select or clear,
\* carries X-Household-ID = id.
RequestCarriesSelectedHousehold ==
    (lastRequest # NoRequest /\ reqSelected # NoId)
        => lastRequest.household = reqSelected

\* C2: whatever getSession and the remote sign-out did, user and session are
\* null in the state in which signOut's promise settles.
SignOutLeavesAnonymous ==
    [][(signOutPc # "idle" /\ signOutPc' = "idle")
          => (user' = NoUser /\ session' = NoSession)]_vars

SignOutThrewAndAnonymous ==
    /\ settled.op = "signOut"
    /\ settled.at = "remote" /\ settled.kind = "throw" /\ settled.err = "other"
    /\ sbSession # NoSession
    /\ user = NoUser /\ session = NoSession

\* C3: the promise signOut returns never rejects.
SignOutNeverRejects == settled.op = "signOut" => settled.result = "resolved"

SignOutResolvedAfterError ==
    /\ settled.op = "signOut" /\ settled.result = "resolved"
    /\ settled.at = "remote" /\ settled.kind = "error" /\ settled.err = "other"

\* C4: in every execution loading eventually becomes false and stays false.
LoadingEventuallyFalse == <>[](loading = FALSE)

\* C5: when the storage write of selectHousehold(id) fails, the call rejects
\* and householdId and the client's household id are what they were.
SelectHouseholdAllOrNothing ==
    [][\A c \in SelectSlots :
          (selCalls[c].pc = "writing" /\ selCalls'[c].pc = "idle"
             /\ selCalls'[c].write = "failed")
          => /\ selCalls'[c].result = "rejected"
             /\ householdId' = householdId
             /\ currentHouseholdId' = currentHouseholdId]_vars

SelectFailedKeepingPrevious ==
    \E c \in SelectSlots :
        /\ selCalls[c].write = "failed" /\ selCalls[c].result = "rejected"
        /\ selCalls[c].id = "H2"
        /\ householdId = "H1" /\ currentHouseholdId = "H1"

\* C6: every households row has a household_members row with role 'owner'.
EveryHouseholdHasOwner ==
    \A h \in households :
        \E m \in members : m.household_id = h.id /\ m.role = "owner"

\* C7: a step of the Bootstrap RPC changes the committed tables only when it
\* returns, and then by exactly one household and its owner row for the
\* payload's user; a failed call leaves the tables as they were.
RpcAtomic ==
    [][tx' # tx =>
          \/ /\ households' = households /\ members' = members
             /\ rpcStatus' # "returned"
          \/ /\ rpcStatus' = "returned"
             /\ rpcReturn' \notin households
             /\ rpcReturn'.created_by = tx.uid
             /\ households' = households \cup {rpcReturn'}
             /\ LET owner == [household_id |-> rpcReturn'.id, user_id |-> tx.uid,
                              role |-> "owner"]
                IN /\ owner \notin members
                   /\ members' = members \cup {owner}]_vars

RpcCreatedHouseholdWithOwner ==
    /\ rpcStatus = "returned"
    /\ rpcReturn \in households
    /\ [household_id |-> rpcReturn.id, user_id |-> rpcReturn.created_by,
        role |-> "owner"] \in members

\* C8: every households row records as created_by the authenticated user whose
\* insert or RPC call created it.
HouseholdCreatorIsCaller ==
    \A h \in households : h.created_by = h.creator

HouseholdVisibleIffMember ==
    lastOp.kind = "h_select" =>
        LET rows == {h \in households : h.id = lastOp.hid}
            member == \E m \in members :
                          m.household_id = lastOp.hid /\ m.user_id = lastOp.actor
        IN /\ lastOp.status = "ok"
           /\ result = (IF member THEN rows ELSE {})

NonMemberSeesNothing ==
    /\ lastOp.kind = "h_select"
    /\ HouseholdExists(lastOp.hid)
    /\ \E m \in members : m.household_id = lastOp.hid
    /\ result = {}

\* C11: after the Bootstrap RPC returned a household for a user, that user has
\* its owner row; a user with the owner row of a household reads its row and
\* updates it; a user with no membership row for it reads nothing.
IsOwner(uid, hid) ==
    /\ HouseholdExists(hid)
    /\ [household_id |-> hid, user_id |-> uid, role |-> "owner"] \in members

BootstrapOwnerReadsAndUpdates ==
    /\ (rpcStatus = "returned" /\ lastOp = NoOp)
          => IsOwner(rpcReturn.created_by, rpcReturn.id)
    /\ (lastOp.kind = "h_select" /\ IsOwner(lastOp.actor, lastOp.hid))
          => result = {h \in households : h.id = lastOp.hid}
    /\ (lastOp.kind = "h_update" /\ IsOwner(lastOp.actor, lastOp.hid))
          => lastOp.status = "ok"
    /\ (lastOp.kind = "h_select"
          /\ ~ \E m \in members : m.household_id = lastOp.hid /\ m.user_id = lastOp.actor)
          => result = {}

InterceptorAttachesTokenIffSession ==
    [][ (reqPc = "getSession" /\ reqPc' = "idle")
           => /\ lastRequest' # NoRequest
              /\ lastRequest'.household # NoId
              /\ (lastRequest'.authorization # NoAuth) <=> (lastRequest'.got = "session")
              /\ lastRequest'.got = "session"
                    => lastRequest'.authorization = sbSession.token
              /\ sbSession = NoSession => lastRequest'.got \in {"none", "threw"}
      ]_vars

RequestBuiltAfterGetSessionThrew ==
    /\ lastRequest.got = "threw"
    /\ lastRequest.household # NoId
    /\ lastRequest.authorization = NoAuth
    /\ sbSession # NoSession

\* C15: when signOut settles, the in-memory householdId, the household id held
\* by the API client and the persisted household id are all empty.
SignOutClearsHousehold ==
    [][ (signOutPc # "idle" /\ signOutPc' = "idle")
           => /\ householdId' = NoId
              /\ currentHouseholdId' = NoId
              /\ secureStore' = NoId
      ]_vars

NoSelfGrantedHouseholdAccess ==
    lastOp.kind = "h_select"
        => \A h \in result : h.created_by = lastOp.actor

\* C19: a request the interceptor builds while signOut is the last operation
\* that settled, with no sign-in or sign-up under way, carries no
\* Authorization header.
NoAuthorizationAfterSignOut ==
    [][ ( /\ reqPc = "getSession" /\ reqPc' = "idle"
          /\ settled.op = "signOut"
          /\ signOutPc = "idle" /\ signInPc = "idle" /\ signUpPc = "idle" )
           => lastRequest'.authorization = NoAuth
      ]_vars

=============================================================================
